---- MODULE Spec2Model ----
(***************************************************************************)
(* Transaction relay of the chain-reaction application: a persisted work   *)
(* queue (table transaction_queue) drained by a single-wallet relay        *)
(* (TransactionProcessor), by a pool of wallets (MultiWalletProcessor) and  *)
(* by a scheduled entry point, with the retention sweep and the batch      *)
(* status update of the store; and the in-memory score queue with its     *)
(* batches (utils/transactionProcessor.ts).                                *)
(* Every await of the source is a step boundary: a cycle is a record that  *)
(* remembers where its handler is suspended and what it holds in locals.   *)
(***************************************************************************)
EXTENDS Integers, Sequences, FiniteSets, TLC

\* ---------------------------------------------------------------- bounds
NumWallets == 2        \* private keys given to the pool
MaxItems == 1          \* rows inserted into transaction_queue while the pool runs
MaxRelayItems == 2     \* rows inserted while the single-wallet relay runs
MaxEvents == 3         \* onSuccess / onError invocations in one run
MaxGap == 1            \* milliseconds between two consecutive inserts
MaxClock == 3600002    \* latest Date.now() at which a retention sweep runs
MaxCronRuns == 1       \* invocations of the scheduled entry point
MaxBatchCalls == 1     \* calls of batchUpdateTransactionStatus
MaxScores == 6         \* scores added to the in-memory queue in one run

\* ------------------------------------------------------- program constants
maxConsecutiveErrors == 5
oneHour == 3600000               \* Date.now() - 3600000 in cleanupOldTransactions
MAX_TRANSACTIONS == 20           \* batch ceiling of the scheduled entry point
maxRetries == 3                  \* score queue: attempts of one transaction
maxBatchSize == 5                \* score queue: transactions of one batch

TX_TYPE_REACTION == "reaction"
TX_TYPE_EXPLOSION == "explosion"

Wallets == 0 .. (NumWallets - 1)
Relay == NumWallets              \* the worker of the single-wallet TransactionProcessor
Workers == Wallets \cup {Relay}
Cron == NumWallets + 1           \* the wallet of the scheduled entry point
Ids == 1 .. (IF MaxItems > MaxRelayItems THEN MaxItems ELSE MaxRelayItems)
Slots == Workers \X {1, 2}       \* a worker's cycles: one, and room for an overlap
NoTx == 0
NoHash == 0

VARIABLES
    mode,                \* which processor the application constructed
    store,               \* transaction_queue: id -> row
    nextId,              \* serial primary key handed to the next insert
    now,                 \* Date.now()
    ledger,              \* submissions accepted by writeContract, in order
    events,              \* number of onSuccess / onError invocations
    callbacks,           \* which of the caller's callbacks raise when invoked
    cycles,              \* in-flight invocations of processWithWallet / processTxQueue
    walletStatus,        \* pool: per wallet isProcessing/totalProcessed/consecutiveErrors
    isPaused,            \* pool
    processingIntervals, \* pool: wallet -> number of live setInterval timers
    relay,               \* single-wallet relay: isProcessing, isPaused, processingInterval
    cron,                \* scheduled entry point: where its invocation stands, its locals
    batch,               \* batchUpdateTransactionStatus: its arguments, where it stands
    scores               \* score queue: queue, isProcessing, the batch in flight

vars == <<mode, store, nextId, now, ledger, events, callbacks, cycles, walletStatus,
          isPaused, processingIntervals, relay, cron, batch, scores>>

storeVars == <<store, nextId, now>>
poolVars == <<walletStatus, isPaused, processingIntervals>>
envVars == <<mode, callbacks, cron, batch, scores>>   \* what no step of a processor or producer changes

\* the callbacks handed to the constructor: which of them raises when it is
\* invoked (none of them, or one)
CallbackSets ==
    {c \in [onStatusUpdate : BOOLEAN, onSuccess : BOOLEAN, onError : BOOLEAN] :
        Cardinality({f \in {"onStatusUpdate", "onSuccess", "onError"} : c[f]}) <= 1}

\* ------------------------------------------------------------ queue store
AbsentRow == [status |-> "absent", hash |-> NoHash, retries |-> 0,
              timestamp |-> 0, type |-> TX_TYPE_REACTION]

RowLimit == IF mode = "relay" THEN MaxRelayItems ELSE MaxItems

\* insert of addToTransactionQueue, gap milliseconds after the previous
\* insert (the first insert sets the origin of the clock): status pending,
\* retries 0, timestamp Date.now()
addToTransactionQueue(type, gap) ==
    /\ nextId <= RowLimit
    /\ nextId = 1 => gap = 0
    /\ now' = now + gap
    /\ store' = [store EXCEPT ![nextId] =
                    [status |-> "pending", hash |-> NoHash, retries |-> 0,
                     timestamp |-> now', type |-> type]]
    /\ nextId' = nextId + 1
    /\ UNCHANGED <<envVars, ledger, events, cycles, poolVars, relay>>

\* variant: failed rows are candidates of the dequeue again
Pending_withFailed(st) == {i \in Ids : st[i].status \in {"pending", "failed"}}

\* where status = 'pending'
Pending(st) == {i \in Ids : st[i].status = "pending"}

\* --------------------------------------------------------------- cycles
\* err is what the catch block of the attempt caught (it is handed to onError)
FreeCycle == [pc |-> "free", tx |-> NoTx, hash |-> NoHash,
              mark |-> "none", rd |-> 0, emitted |-> "none", err |-> "none"]

ActiveSlots == {s \in Slots : cycles[s].pc # "free"}
CyclesOf(w) == {s \in ActiveSlots : s[1] = w}
FreeSlot(w) == IF cycles[<<w, 1>>].pc = "free" THEN <<w, 1>> ELSE <<w, 2>>
Holding == {s \in ActiveSlots : cycles[s].tx # NoTx}

\* ------------------------------------------------------------ store queries
\* variant: a dequeue that leaves out the rows some worker already holds
getNextPendingTransaction_claiming(st) ==
    LET free == {i \in Pending(st) : \A s \in Holding : cycles[s].tx # i} IN
    {i \in free : \A j \in free : st[i].timestamp <= st[j].timestamp}

\* variant: order by timestamp descending
getNextPendingTransaction_newest(st) ==
    {i \in Pending(st) : \A j \in Pending(st) : st[i].timestamp >= st[j].timestamp}

\* variant: the select without its order by
getNextPendingTransaction_unordered(st) == Pending(st)

\* select * where status = 'pending' order by timestamp asc limit 1:
\* the rows the query may return (several when timestamps tie)
getNextPendingTransaction(st) ==
    {i \in Pending(st) : \A j \in Pending(st) : st[i].timestamp <= st[j].timestamp}

\* first statement of updateTransactionStatus: select retries where id = ...
\* (currentTx?.retries || 0)
currentRetries(st, id, readOk) ==
    IF readOk /\ st[id].status # "absent" THEN st[id].retries ELSE 0

\* variant: an update that writes hash and retries and leaves status
updateTransactionStatus_retriesOnly(st, id, status, hash, rd) ==
    IF st[id].status = "absent" THEN st
    ELSE [st EXCEPT ![id] =
             [@ EXCEPT !.hash = IF hash = NoHash THEN @ ELSE hash,
                       !.retries = rd + 1]]

\* second statement of updateTransactionStatus: update {status, hash, retries}.
\* hash is undefined when the caller passes none: the key is then left out of
\* the update and the column keeps its value.
updateTransactionStatus(st, id, status, hash, rd) ==
    IF st[id].status = "absent" THEN st
    ELSE [st EXCEPT ![id] =
             [@ EXCEPT !.status = status,
                       !.hash = IF hash = NoHash THEN @ ELSE hash,
                       !.retries = rd + 1]]

\* rows may be handed out while the run has events left to emit
EventsLeft == events.success + events.error + Cardinality(Holding) < MaxEvents

\* columns x, y, energy and atom_id of row id: written by the insert and by
\* no update.  The producer passes floored coordinates and an integer energy;
\* the insert of addToTransactionQueue in action.ts writes no atom_id, the
\* one that does writes the atom's id
NoAtom == ""
CellOf(id) ==
    [x |-> 10 * id, y |-> 20 * id, energy |-> id,
     atom_id |-> IF id % 2 = 1 THEN NoAtom ELSE "atom"]

\* BigInt(n) of an integer number n: the same integer
BigInt(n) == n

\* variant: every row is marshalled as a reaction
LedgerCall_reactionOnly(w, id) ==
    LET tx == CellOf(id)
        atomId == IF tx.atom_id = NoAtom THEN "" ELSE tx.atom_id
    IN [w |-> w, tx |-> id, fn |-> "recordReaction",
        args |-> [x |-> BigInt(tx.x), y |-> BigInt(tx.y),
                  energy |-> BigInt(tx.energy), atomId |-> atomId]]

\* the ledger call a row is marshalled into, the same for simulateContract
\* and for writeContract, which is passed the simulated request:
\* atomId = tx.atom_id || ''
LedgerCall(w, id) ==
    LET tx == CellOf(id)
        atomId == IF tx.atom_id = NoAtom THEN "" ELSE tx.atom_id
    IN IF store[id].type = TX_TYPE_EXPLOSION
       THEN [w |-> w, tx |-> id, fn |-> "recordExplosion",
             args |-> [atomId |-> atomId]]
       ELSE [w |-> w, tx |-> id, fn |-> "recordReaction",
             args |-> [x |-> BigInt(tx.x), y |-> BigInt(tx.y),
                       energy |-> BigInt(tx.energy), atomId |-> atomId]]

\* the scheduled entry point before its first invocation; response is the
\* JSON body of its answer
NoCount == -1
NoResponse == [success |-> FALSE, processedTransactions |-> NoCount, timestamp |-> NoCount]
IdleCron == [pc |-> "idle", i |-> 0, processedCount |-> 0, tx |-> NoTx, hash |-> NoHash,
             mark |-> "none", rd |-> 0, swept |-> FALSE, response |-> NoResponse,
             runs |-> 0]

\* batchUpdateTransactionStatus before its first call.  hashes maps an id
\* without an entry to NoHash, retriesMap an id without an entry to 0
IdleBatch == [pc |-> "idle", ids |-> {}, status |-> "none",
              hashes |-> [i \in Ids |-> NoHash], retriesMap |-> [i \in Ids |-> 0],
              readOk |-> FALSE, ok |-> FALSE, calls |-> 0]

\* the score queue after its constructor: an empty queue, no batch in flight.
\* queue holds the scores by the order in which they were added (the k-th
\* score added is k); mined is the wallet's nonce on the ledger
IdleScores == [queue |-> <<>>, isProcessing |-> FALSE, pc |-> "idle", nonce |-> 0,
               txs |-> <<>>, added |-> 0, mined |-> 0]

\* an empty table, no submission, no processor started
EmptySystem ==
    /\ cron = IdleCron
    /\ scores = IdleScores
    /\ batch = IdleBatch
    /\ store = [i \in Ids |-> AbsentRow]
    /\ nextId = 1
    /\ now = 0
    /\ ledger = <<>>
    /\ events = [success |-> 0, error |-> 0]
    /\ cycles = [s \in Slots |-> FreeCycle]
    /\ walletStatus = [w \in Wallets |->
          [isProcessing |-> FALSE, totalProcessed |-> 0, consecutiveErrors |-> 0]]
    /\ isPaused = FALSE
    /\ processingIntervals = [w \in Wallets |-> 0]
    /\ relay = [isProcessing |-> FALSE, isPaused |-> FALSE, processingInterval |-> 0]

Init ==
    /\ mode \in {"pool", "relay"}
    /\ callbacks \in CallbackSets
    /\ mode = "relay" => ~callbacks.onStatusUpdate
    /\ EmptySystem

\* ------------------------------------------------------------------ pool
\* variant: the guard without the isProcessing test
SkipTick_noProcessing(w) ==
    \/ isPaused
    \/ walletStatus[w].consecutiveErrors >= maxConsecutiveErrors

\* variant: the guard without the consecutiveErrors test
SkipTick_noBreaker(w) ==
    \/ isPaused
    \/ walletStatus[w].isProcessing

\* variant: the guard without the isPaused test
SkipTick_noPause(w) ==
    \/ walletStatus[w].isProcessing
    \/ walletStatus[w].consecutiveErrors >= maxConsecutiveErrors

\* guard of processWithWallet: TRUE when the tick returns at once
SkipTick(w) ==
    \/ isPaused
    \/ walletStatus[w].isProcessing
    \/ walletStatus[w].consecutiveErrors >= maxConsecutiveErrors

\* variant: stop clears the timer of the first wallet only
stop_firstOnly ==
    /\ mode = "pool"
    /\ processingIntervals' = [processingIntervals EXCEPT ![0] = 0]
    /\ UNCHANGED <<envVars, storeVars, ledger, events, cycles, walletStatus, isPaused, relay>>

\* MultiWalletProcessor.stop: clearInterval on every timer
stop ==
    /\ mode = "pool"
    /\ processingIntervals' = [w \in Wallets |-> 0]
    /\ UNCHANGED <<envVars, storeVars, ledger, events, cycles, walletStatus, isPaused, relay>>

\* variant: start without its stop(): the new timers are added to the live ones
start_stacking ==
    /\ mode = "pool"
    /\ isPaused' = FALSE
    /\ processingIntervals' = [w \in Wallets |->
                                 IF processingIntervals[w] < 2
                                 THEN processingIntervals[w] + 1 ELSE 2]
    /\ UNCHANGED <<envVars, storeVars, ledger, events, cycles, walletStatus, relay>>

\* MultiWalletProcessor.start: isPaused = false; stop(); one timer per wallet
start ==
    /\ mode = "pool"
    /\ isPaused' = FALSE
    /\ processingIntervals' = [w \in Wallets |-> 1]
    /\ UNCHANGED <<envVars, storeVars, ledger, events, cycles, walletStatus, relay>>

pause ==
    /\ mode = "pool"
    /\ isPaused' = TRUE
    /\ UNCHANGED <<envVars, storeVars, ledger, events, cycles, walletStatus,
                   processingIntervals, relay>>

resume ==
    /\ mode = "pool"
    /\ isPaused' = FALSE
    /\ UNCHANGED <<envVars, storeVars, ledger, events, cycles, walletStatus,
                   processingIntervals, relay>>

\* variant: a reset that also releases the wallet
resetWallet_releasing(w) ==
    /\ mode = "pool"
    /\ walletStatus' = [walletStatus EXCEPT ![w].consecutiveErrors = 0,
                                            ![w].isProcessing = FALSE]
    /\ UNCHANGED <<envVars, storeVars, ledger, events, cycles, isPaused,
                   processingIntervals, relay>>

\* resetWallet(index), index within the pool
resetWallet(w) ==
    /\ mode = "pool"
    /\ walletStatus' = [walletStatus EXCEPT ![w].consecutiveErrors = 0]
    /\ UNCHANGED <<envVars, storeVars, ledger, events, cycles, isPaused,
                   processingIntervals, relay>>

\* a timer of wallet w fires: processWithWallet(w) up to its first await.
\* updateStatusCallback is called before the try: an observer that raises
\* ends the invocation with isProcessing left set.
processWithWallet(w) ==
    /\ mode = "pool"
    /\ processingIntervals[w] > 0
    /\ cycles[<<w, 2>>].pc = "free"
    /\ IF SkipTick(w)
       THEN UNCHANGED <<cycles, walletStatus>>
       ELSE /\ walletStatus' = [walletStatus EXCEPT ![w].isProcessing = TRUE]
            /\ cycles' = IF callbacks.onStatusUpdate
                         THEN cycles
                         ELSE [cycles EXCEPT ![FreeSlot(w)].pc = "fetch"]
    /\ UNCHANGED <<envVars, storeVars, ledger, events, isPaused, processingIntervals, relay>>

\* variant: a dequeue that fails or returns no row counts as an error of the
\* wallet
pwwFetch_countingError(s) ==
    /\ mode = "pool"
    /\ s[1] \in Wallets
    /\ cycles[s].pc = "fetch"
    /\ \/ \E storeOk \in BOOLEAN :
            /\ storeOk => getNextPendingTransaction(store) = {}
            /\ walletStatus' = [walletStatus EXCEPT
                  ![s[1]].isProcessing = FALSE,
                  ![s[1]].consecutiveErrors = IF @ < maxConsecutiveErrors THEN @ + 1 ELSE @]
            /\ cycles' = [cycles EXCEPT ![s] = FreeCycle]
       \/ \E i \in getNextPendingTransaction(store) :
            /\ EventsLeft
            /\ cycles' = [cycles EXCEPT ![s].pc = "simulate", ![s].tx = i]
            /\ UNCHANGED walletStatus
    /\ UNCHANGED <<envVars, storeVars, ledger, events, isPaused, processingIntervals, relay>>

\* the dequeue query of a suspended cycle answers.  Error or no row: the
\* wallet is released; otherwise the row is held in tx.
pwwFetch(s) ==
    /\ mode = "pool"
    /\ s[1] \in Wallets
    /\ cycles[s].pc = "fetch"
    /\ \/ \E storeOk \in BOOLEAN :
            /\ storeOk => getNextPendingTransaction(store) = {}
            /\ walletStatus' = [walletStatus EXCEPT ![s[1]].isProcessing = FALSE]
            /\ cycles' = [cycles EXCEPT ![s] = FreeCycle]
       \/ \E i \in getNextPendingTransaction(store) :
            /\ EventsLeft
            /\ cycles' = [cycles EXCEPT ![s].pc = "simulate", ![s].tx = i]
            /\ UNCHANGED walletStatus
    /\ UNCHANGED <<envVars, storeVars, ledger, events, isPaused, processingIntervals, relay>>

\* variant: a simulation that raised is ignored and the request submitted
pwwSimulate_ignoreFailure(s) ==
    /\ mode = "pool"
    /\ s[1] \in Wallets
    /\ cycles[s].pc = "simulate"
    /\ \E simOk \in BOOLEAN :
         cycles' = [cycles EXCEPT
            ![s].pc = "submit",
            ![s].err = IF simOk THEN "none" ELSE "simulate"]
    /\ UNCHANGED <<envVars, storeVars, ledger, events, poolVars, relay>>

\* publicClient.simulateContract answers: recordExplosion(atomId) for an
\* explosion row, recordReaction(x, y, energy, atomId) otherwise
pwwSimulate(s) ==
    /\ mode = "pool"
    /\ s[1] \in Wallets
    /\ cycles[s].pc = "simulate"
    /\ \E simOk \in BOOLEAN :
         cycles' = [cycles EXCEPT
            ![s].pc = IF simOk THEN "submit" ELSE "markRead",
            ![s].mark = IF simOk THEN "none" ELSE "failed",
            ![s].err = IF simOk THEN "none" ELSE "simulate"]
    /\ UNCHANGED <<envVars, storeVars, ledger, events, poolVars, relay>>

\* walletClient.writeContract answers: a hash, or it raises
pwwSubmit(s) ==
    /\ mode = "pool"
    /\ s[1] \in Wallets
    /\ cycles[s].pc = "submit"
    /\ \/ /\ ledger' = Append(ledger, LedgerCall(s[1], cycles[s].tx))
          /\ cycles' = [cycles EXCEPT ![s].pc = "markRead", ![s].mark = "sent",
                                      ![s].hash = Len(ledger) + 1]
       \/ /\ cycles' = [cycles EXCEPT ![s].pc = "markRead", ![s].mark = "failed",
                                      ![s].err = "submit"]
          /\ UNCHANGED ledger
    /\ UNCHANGED <<envVars, storeVars, events, poolVars, relay>>

\* updateTransactionStatus, first statement: read the row's retries
pwwMarkRead(s) ==
    /\ mode = "pool"
    /\ s[1] \in Wallets
    /\ cycles[s].pc = "markRead"
    /\ \E readOk \in BOOLEAN :
         cycles' = [cycles EXCEPT ![s].pc = "markWrite",
                                  ![s].rd = currentRetries(store, cycles[s].tx, readOk)]
    /\ UNCHANGED <<envVars, storeVars, ledger, events, poolVars, relay>>

\* updateTransactionStatus, second statement, and what processWithWallet does
\* with the wallet when it returns (it never raises: a store error is
\* returned as {success: false} and ignored)
pwwMarkWrite(s) ==
    /\ mode = "pool"
    /\ s[1] \in Wallets
    /\ cycles[s].pc = "markWrite"
    /\ LET w == s[1]
           c == cycles[s]
       IN
       /\ \E storeOk \in BOOLEAN :
            store' = IF storeOk
                     THEN updateTransactionStatus(store, c.tx, c.mark,
                              IF c.mark = "sent" THEN c.hash ELSE NoHash, c.rd)
                     ELSE store
       /\ IF c.mark = "sent"
          THEN /\ events' = [events EXCEPT !.success = @ + 1]
               /\ walletStatus' = [walletStatus EXCEPT
                     ![w].totalProcessed = @ + 1,
                     ![w].consecutiveErrors = 0,
                     ![w].isProcessing = IF callbacks.onSuccess THEN @ ELSE FALSE]
               /\ cycles' = IF callbacks.onSuccess
                            THEN [cycles EXCEPT ![s].pc = "markRead",
                                                ![s].mark = "failed",
                                                ![s].emitted = "success",
                                                ![s].err = "onSuccess"]
                            ELSE [cycles EXCEPT ![s] = FreeCycle]
          ELSE /\ events' = [events EXCEPT !.error = @ + 1]
               /\ walletStatus' = [walletStatus EXCEPT
                     ![w].consecutiveErrors = IF callbacks.onError THEN @ + 2 ELSE @ + 1,
                     ![w].isProcessing = FALSE]
               /\ cycles' = [cycles EXCEPT ![s] = FreeCycle]
    /\ UNCHANGED <<envVars, nextId, now, ledger, isPaused, processingIntervals, relay>>

\* ---------------------------------------------------- single-wallet relay
\* guard of processTxQueue: TRUE when the tick returns at once
SkipRelayTick == relay.isProcessing \/ relay.isPaused

\* TransactionProcessor.start: isPaused = false; a timer unless one is live
relayStart ==
    /\ mode = "relay"
    /\ relay' = [relay EXCEPT !.isPaused = FALSE,
                              !.processingInterval = IF @ = 0 THEN 1 ELSE @]
    /\ UNCHANGED <<envVars, storeVars, ledger, events, cycles, poolVars>>

relayStop ==
    /\ mode = "relay"
    /\ relay' = [relay EXCEPT !.processingInterval = 0]
    /\ UNCHANGED <<envVars, storeVars, ledger, events, cycles, poolVars>>

relayPause ==
    /\ mode = "relay"
    /\ relay' = [relay EXCEPT !.isPaused = TRUE]
    /\ UNCHANGED <<envVars, storeVars, ledger, events, cycles, poolVars>>

relayResume ==
    /\ mode = "relay"
    /\ relay' = [relay EXCEPT !.isPaused = FALSE]
    /\ UNCHANGED <<envVars, storeVars, ledger, events, cycles, poolVars>>

\* the relay's timer fires: processTxQueue up to its first await
processTxQueue ==
    /\ mode = "relay"
    /\ relay.processingInterval > 0
    /\ cycles[<<Relay, 2>>].pc = "free"
    /\ IF SkipRelayTick
       THEN UNCHANGED <<cycles, relay>>
       ELSE /\ relay' = [relay EXCEPT !.isProcessing = TRUE]
            /\ cycles' = [cycles EXCEPT ![FreeSlot(Relay)].pc = "fetch"]
    /\ UNCHANGED <<envVars, storeVars, ledger, events, poolVars>>

\* variant: a dequeue that raised or returned no row leaves isProcessing set
ptqFetch_keepingBusy(s) ==
    /\ mode = "relay"
    /\ s[1] = Relay
    /\ cycles[s].pc = "fetch"
    /\ \/ \E storeOk \in BOOLEAN :
            /\ storeOk => getNextPendingTransaction(store) = {}
            /\ cycles' = [cycles EXCEPT ![s] = FreeCycle]
            /\ UNCHANGED relay
       \/ \E i \in getNextPendingTransaction(store) :
            /\ EventsLeft
            /\ cycles' = [cycles EXCEPT ![s].pc = "simulate", ![s].tx = i]
            /\ UNCHANGED relay
    /\ UNCHANGED <<envVars, storeVars, ledger, events, poolVars>>

\* the dequeue answers: it raised, returned an error or no row (the relay is
\* released), or returned a row
ptqFetch(s) ==
    /\ mode = "relay"
    /\ s[1] = Relay
    /\ cycles[s].pc = "fetch"
    /\ \/ \E storeOk \in BOOLEAN :
            /\ storeOk => getNextPendingTransaction(store) = {}
            /\ relay' = [relay EXCEPT !.isProcessing = FALSE]
            /\ cycles' = [cycles EXCEPT ![s] = FreeCycle]
       \/ \E i \in getNextPendingTransaction(store) :
            /\ EventsLeft
            /\ cycles' = [cycles EXCEPT ![s].pc = "simulate", ![s].tx = i]
            /\ UNCHANGED relay
    /\ UNCHANGED <<envVars, storeVars, ledger, events, poolVars>>

ptqSimulate(s) ==
    /\ mode = "relay"
    /\ s[1] = Relay
    /\ cycles[s].pc = "simulate"
    /\ \E simOk \in BOOLEAN :
         cycles' = [cycles EXCEPT
            ![s].pc = IF simOk THEN "submit" ELSE "markRead",
            ![s].mark = IF simOk THEN "none" ELSE "failed",
            ![s].err = IF simOk THEN "none" ELSE "simulate"]
    /\ UNCHANGED <<envVars, storeVars, ledger, events, poolVars, relay>>

ptqSubmit(s) ==
    /\ mode = "relay"
    /\ s[1] = Relay
    /\ cycles[s].pc = "submit"
    /\ \/ /\ ledger' = Append(ledger, LedgerCall(Relay, cycles[s].tx))
          /\ cycles' = [cycles EXCEPT ![s].pc = "markRead", ![s].mark = "sent",
                                      ![s].hash = Len(ledger) + 1]
       \/ /\ cycles' = [cycles EXCEPT ![s].pc = "markRead", ![s].mark = "failed",
                                      ![s].err = "submit"]
          /\ UNCHANGED ledger
    /\ UNCHANGED <<envVars, storeVars, events, poolVars, relay>>

ptqMarkRead(s) ==
    /\ mode = "relay"
    /\ s[1] = Relay
    /\ cycles[s].pc = "markRead"
    /\ \E readOk \in BOOLEAN :
         cycles' = [cycles EXCEPT ![s].pc = "markWrite",
                                  ![s].rd = currentRetries(store, cycles[s].tx, readOk)]
    /\ UNCHANGED <<envVars, storeVars, ledger, events, poolVars, relay>>

\* variant: an update that the store rejects ends the invocation at once,
\* without the finally block
ptqMarkWrite_stalling(s) ==
    /\ mode = "relay"
    /\ s[1] = Relay
    /\ cycles[s].pc = "markWrite"
    /\ LET c == cycles[s] IN
       \/ /\ store' = store
          /\ cycles' = [cycles EXCEPT ![s] = FreeCycle]
          /\ UNCHANGED <<events, relay>>
       \/ /\ store' = updateTransactionStatus(store, c.tx, c.mark,
                              IF c.mark = "sent" THEN c.hash ELSE NoHash, c.rd)
          /\ IF c.mark = "sent"
             THEN /\ events' = [events EXCEPT !.success = @ + 1]
                  /\ relay' = [relay EXCEPT
                        !.isProcessing = IF callbacks.onSuccess THEN @ ELSE FALSE]
                  /\ cycles' = IF callbacks.onSuccess
                               THEN [cycles EXCEPT ![s].pc = "markRead",
                                                   ![s].mark = "failed",
                                                   ![s].emitted = "success",
                                                   ![s].err = "onSuccess"]
                               ELSE [cycles EXCEPT ![s] = FreeCycle]
             ELSE /\ events' = [events EXCEPT !.error = @ + 1]
                  /\ relay' = [relay EXCEPT !.isProcessing = FALSE]
                  /\ cycles' = [cycles EXCEPT ![s] = FreeCycle]
    /\ UNCHANGED <<envVars, nextId, now, ledger, poolVars>>

\* the status update answers (an error of the call is caught and logged),
\* then onSuccess / onError; onSuccess raising lands in the catch that marks
\* the row failed, onError raising in the outer catch
ptqMarkWrite(s) ==
    /\ mode = "relay"
    /\ s[1] = Relay
    /\ cycles[s].pc = "markWrite"
    /\ LET c == cycles[s] IN
       /\ \E storeOk \in BOOLEAN :
            store' = IF storeOk
                     THEN updateTransactionStatus(store, c.tx, c.mark,
                              IF c.mark = "sent" THEN c.hash ELSE NoHash, c.rd)
                     ELSE store
       /\ IF c.mark = "sent"
          THEN /\ events' = [events EXCEPT !.success = @ + 1]
               /\ relay' = [relay EXCEPT
                     !.isProcessing = IF callbacks.onSuccess THEN @ ELSE FALSE]
               /\ cycles' = IF callbacks.onSuccess
                            THEN [cycles EXCEPT ![s].pc = "markRead",
                                                ![s].mark = "failed",
                                                ![s].emitted = "success",
                                                ![s].err = "onSuccess"]
                            ELSE [cycles EXCEPT ![s] = FreeCycle]
          ELSE /\ events' = [events EXCEPT !.error = @ + 1]
               /\ relay' = [relay EXCEPT !.isProcessing = FALSE]
               /\ cycles' = [cycles EXCEPT ![s] = FreeCycle]
    /\ UNCHANGED <<envVars, nextId, now, ledger, poolVars>>

\* the producer: reactions and explosions in turn
KindOf(id) == IF id % 2 = 1 THEN TX_TYPE_REACTION ELSE TX_TYPE_EXPLOSION

Enqueue ==
    \E gap \in 0 .. MaxGap : addToTransactionQueue(KindOf(nextId), gap)

Next ==
    \/ Enqueue
    \/ resume
    \/ start
    \/ stop
    \/ pause
    \/ \E w \in Wallets : resetWallet(w)
    \/ \E w \in Wallets : processWithWallet(w)
    \/ \E s \in Slots : pwwFetch(s)
    \/ \E s \in Slots : pwwSimulate(s)
    \/ \E s \in Slots : pwwSubmit(s)
    \/ \E s \in Slots : pwwMarkRead(s)
    \/ \E s \in Slots : pwwMarkWrite(s)
    \/ relayResume
    \/ relayStart
    \/ relayStop
    \/ relayPause
    \/ processTxQueue
    \/ \E s \in Slots : ptqFetch(s)
    \/ \E s \in Slots : ptqSimulate(s)
    \/ \E s \in Slots : ptqSubmit(s)
    \/ \E s \in Slots : ptqMarkRead(s)
    \/ \E s \in Slots : ptqMarkWrite(s)

Spec == Init /\ [][Next]_vars

\* the relay's dequeue answers with row i
ptqHandOut(s, i) == ptqFetch(s) /\ cycles'[s].tx = i

\* setInterval keeps firing while the timer is live, every awaited call
\* settles, and a store that answers again and again eventually answers the
\* dequeue with each row it may return
RelayFairness ==
    /\ WF_vars(processTxQueue)
    /\ \A s \in {Relay} \X {1, 2} :
          /\ WF_vars(ptqFetch(s))
          /\ WF_vars(ptqSimulate(s))
          /\ WF_vars(ptqSubmit(s))
          /\ WF_vars(ptqMarkRead(s))
          /\ WF_vars(ptqMarkWrite(s))
          /\ \A i \in Ids : SF_vars(ptqHandOut(s, i))

\* the application built around the single-wallet relay
RelayInit == Init /\ mode = "relay"

RelayNext ==
    \/ Enqueue
    \/ relayResume
    \/ relayStart
    \/ relayStop
    \/ relayPause
    \/ processTxQueue
    \/ \E s \in Slots : ptqFetch(s)
    \/ \E s \in Slots : ptqSimulate(s)
    \/ \E s \in Slots : ptqSubmit(s)
    \/ \E s \in Slots : ptqMarkRead(s)
    \/ \E s \in Slots : ptqMarkWrite(s)

RelayLiveSpec == RelayInit /\ [][RelayNext]_vars /\ RelayFairness

\* ------------------------------------------------ scheduled entry point
\* GET of the cron route: processTransactionQueue starts (PRIVATE_KEY and
\* CONTRACT_ADDRESS are configured), processedCount = 0, i = 0
GET ==
    /\ mode = "cron"
    /\ cron.pc \in {"idle", "done"}
    /\ cron.runs < MaxCronRuns
    /\ cron' = [IdleCron EXCEPT !.pc = "fetch", !.runs = cron.runs + 1]
    /\ UNCHANGED <<mode, callbacks, scores, batch, storeVars, ledger, events, cycles, poolVars, relay>>

\* the route's getNextPendingTransaction answers: a store error is rethrown
\* up to GET, which answers 500 without the sweep; no row ends the loop; a
\* row is attempted
cronFetch ==
    /\ mode = "cron"
    /\ cron.pc = "fetch"
    /\ \/ cron' = [cron EXCEPT !.pc = "done",
                      !.response = [success |-> FALSE, processedTransactions |-> NoCount,
                                    timestamp |-> now]]
       \/ /\ getNextPendingTransaction(store) = {}
          /\ cron' = [cron EXCEPT !.pc = "sweep"]
       \/ \E i \in getNextPendingTransaction(store) :
             cron' = [cron EXCEPT !.pc = "simulate", !.tx = i]
    /\ UNCHANGED <<mode, callbacks, scores, batch, storeVars, ledger, events, cycles, poolVars, relay>>

cronSimulate ==
    /\ mode = "cron"
    /\ cron.pc = "simulate"
    /\ \E simOk \in BOOLEAN :
         cron' = [cron EXCEPT !.pc = IF simOk THEN "submit" ELSE "markRead",
                              !.mark = IF simOk THEN "none" ELSE "failed"]
    /\ UNCHANGED <<mode, callbacks, scores, batch, storeVars, ledger, events, cycles, poolVars, relay>>

cronSubmit ==
    /\ mode = "cron"
    /\ cron.pc = "submit"
    /\ \/ /\ ledger' = Append(ledger, LedgerCall(Cron, cron.tx))
          /\ cron' = [cron EXCEPT !.pc = "markRead", !.mark = "sent",
                                  !.hash = Len(ledger) + 1]
       \/ /\ cron' = [cron EXCEPT !.pc = "markRead", !.mark = "failed"]
          /\ UNCHANGED ledger
    /\ UNCHANGED <<mode, callbacks, scores, batch, storeVars, events, cycles, poolVars, relay>>

cronMarkRead ==
    /\ mode = "cron"
    /\ cron.pc = "markRead"
    /\ \E readOk \in BOOLEAN :
         cron' = [cron EXCEPT !.pc = "markWrite",
                              !.rd = currentRetries(store, cron.tx, readOk)]
    /\ UNCHANGED <<mode, callbacks, scores, batch, storeVars, ledger, events, cycles, poolVars, relay>>

\* the route's updateTransactionStatus answers (true or false, ignored);
\* processedCount++ after a sent mark; i++ and the loop test
cronMarkWrite ==
    /\ mode = "cron"
    /\ cron.pc = "markWrite"
    /\ \E storeOk \in BOOLEAN :
         store' = IF storeOk
                  THEN updateTransactionStatus(store, cron.tx, cron.mark,
                           IF cron.mark = "sent" THEN cron.hash ELSE NoHash, cron.rd)
                  ELSE store
    /\ cron' = [cron EXCEPT
          !.pc = IF cron.i + 1 < MAX_TRANSACTIONS THEN "fetch" ELSE "sweep",
          !.i = cron.i + 1,
          !.processedCount = IF cron.mark = "sent" THEN @ + 1 ELSE @,
          !.tx = NoTx, !.hash = NoHash, !.mark = "none", !.rd = 0]
    /\ UNCHANGED <<mode, callbacks, scores, batch, nextId, now, ledger, events, cycles, poolVars, relay>>

\* ------------------------------------------------------- retention sweep
\* variant: the delete without the status filter
DeleteOld_anyStatus(st, cutoff) ==
    [i \in Ids |->
        IF st[i].status # "absent" /\ st[i].timestamp < cutoff
        THEN AbsentRow ELSE st[i]]

\* delete from transaction_queue where timestamp < cutoff and status <> 'pending'
DeleteOld(st, cutoff) ==
    [i \in Ids |->
        IF st[i].status \notin {"absent", "pending"} /\ st[i].timestamp < cutoff
        THEN AbsentRow ELSE st[i]]

\* cleanupOldTransactions, called elapsed milliseconds after the last clock
\* reading; a store error is caught and reported, and nothing is deleted
cleanupOldTransactions(elapsed, storeOk) ==
    /\ now + elapsed <= MaxClock
    /\ now' = now + elapsed
    /\ store' = IF storeOk THEN DeleteOld(store, now' - oneHour) ELSE store
    /\ UNCHANGED <<envVars, nextId, ledger, events, cycles, poolVars, relay>>

\* the moments a sweep is called at: at once, one window later, just after
SweepDelays == {0, oneHour, oneHour + 1}

Sweep == \E elapsed \in SweepDelays, storeOk \in BOOLEAN :
            cleanupOldTransactions(elapsed, storeOk)

\* the single-wallet relay with the retention sweep running beside it
RelaySweepNext ==
    \/ Sweep
    \/ Enqueue
    \/ relayResume
    \/ relayStart
    \/ relayStop
    \/ relayPause
    \/ processTxQueue
    \/ \E s \in Slots : ptqFetch(s)
    \/ \E s \in Slots : ptqSimulate(s)
    \/ \E s \in Slots : ptqSubmit(s)
    \/ \E s \in Slots : ptqMarkRead(s)
    \/ \E s \in Slots : ptqMarkWrite(s)

RelaySweepSpec == RelayInit /\ [][RelaySweepNext]_vars

\* GET after processTransactionQueue returned: the route's
\* cleanupOldTransactions (its error is caught and logged), then the summary
cronSweep ==
    /\ mode = "cron"
    /\ cron.pc = "sweep"
    /\ \E elapsed \in SweepDelays, storeOk \in BOOLEAN :
          /\ now + elapsed <= MaxClock
          /\ now' = now + elapsed
          /\ store' = IF storeOk THEN DeleteOld(store, now' - oneHour) ELSE store
    /\ cron' = [cron EXCEPT !.pc = "done", !.swept = TRUE,
                            !.response = [success |-> TRUE,
                                          processedTransactions |-> cron.processedCount,
                                          timestamp |-> now']]
    /\ UNCHANGED <<mode, callbacks, scores, batch, nextId, ledger, events, cycles, poolVars, relay>>

\* the deployment drained by the scheduled entry point alone
CronInit ==
    /\ mode = "cron"
    /\ callbacks = [onStatusUpdate |-> FALSE, onSuccess |-> FALSE, onError |-> FALSE]
    /\ EmptySystem

CronNext ==
    \/ Enqueue
    \/ GET
    \/ cronFetch
    \/ cronSimulate
    \/ cronSubmit
    \/ cronMarkRead
    \/ cronMarkWrite
    \/ cronSweep

\* every awaited call of the invocation settles
CronFairness ==
    /\ WF_vars(cronFetch) /\ WF_vars(cronSimulate) /\ WF_vars(cronSubmit)
    /\ WF_vars(cronMarkRead) /\ WF_vars(cronMarkWrite) /\ WF_vars(cronSweep)

CronSpec == CronInit /\ [][CronNext]_vars /\ CronFairness

\* ------------------------------------------------- pool with calls that return
\* the application built around the pool
PoolInit == Init /\ mode = "pool"

PoolNext ==
    \/ Enqueue
    \/ resume
    \/ start
    \/ stop
    \/ pause
    \/ \E w \in Wallets : resetWallet(w)
    \/ \E w \in Wallets : processWithWallet(w)
    \/ \E s \in Slots : pwwFetch(s)
    \/ \E s \in Slots : pwwSimulate(s)
    \/ \E s \in Slots : pwwSubmit(s)
    \/ \E s \in Slots : pwwMarkRead(s)
    \/ \E s \in Slots : pwwMarkWrite(s)

\* every awaited call of a cycle returns
PoolFairness ==
    \A s \in Wallets \X {1, 2} :
       /\ WF_vars(pwwFetch(s))
       /\ WF_vars(pwwSimulate(s))
       /\ WF_vars(pwwSubmit(s))
       /\ WF_vars(pwwMarkRead(s))
       /\ WF_vars(pwwMarkWrite(s))

PoolLiveSpec == PoolInit /\ [][PoolNext]_vars /\ PoolFairness

\* the pool, its producer and the retention sweep
PoolSweepNext ==
    \/ Sweep
    \/ Enqueue
    \/ resume
    \/ start
    \/ stop
    \/ pause
    \/ \E w \in Wallets : resetWallet(w)
    \/ \E w \in Wallets : processWithWallet(w)
    \/ \E s \in Slots : pwwFetch(s)
    \/ \E s \in Slots : pwwSimulate(s)
    \/ \E s \in Slots : pwwSubmit(s)
    \/ \E s \in Slots : pwwMarkRead(s)
    \/ \E s \in Slots : pwwMarkWrite(s)

PoolSweepSpec == PoolInit /\ [][PoolSweepNext]_vars

\* ------------------------------------------- relay over a store that answers
\* select count(*) where status = 'pending'
getPendingTransactionCount(st) == Cardinality(Pending(st))

\* the steps of processTxQueue whose store call succeeds: the dequeue reports
\* no row only when none is pending, the read returns the row's retries, the
\* update is applied
ptqFetchOk(s) ==
    /\ ptqFetch(s)
    /\ cycles'[s].pc = "free" => getNextPendingTransaction(store) = {}

ptqMarkReadOk(s) ==
    /\ ptqMarkRead(s)
    /\ cycles'[s].rd = currentRetries(store, cycles[s].tx, TRUE)

ptqMarkWriteOk(s) ==
    /\ ptqMarkWrite(s)
    /\ store' = updateTransactionStatus(store, cycles[s].tx, cycles[s].mark,
                    IF cycles[s].mark = "sent" THEN cycles[s].hash ELSE NoHash,
                    cycles[s].rd)

RelayDrainNext ==
    \/ Enqueue
    \/ relayStart
    \/ relayStop
    \/ relayPause
    \/ relayResume
    \/ processTxQueue
    \/ \E s \in Slots : ptqFetchOk(s)
    \/ \E s \in Slots : ptqSimulate(s)
    \/ \E s \in Slots : ptqSubmit(s)
    \/ \E s \in Slots : ptqMarkReadOk(s)
    \/ \E s \in Slots : ptqMarkWriteOk(s)

\* the timer keeps firing while it is live and every awaited call returns
RelayDrainFairness ==
    /\ WF_vars(processTxQueue)
    /\ \A s \in {Relay} \X {1, 2} :
          /\ WF_vars(ptqFetchOk(s))
          /\ WF_vars(ptqSimulate(s))
          /\ WF_vars(ptqSubmit(s))
          /\ WF_vars(ptqMarkReadOk(s))
          /\ WF_vars(ptqMarkWriteOk(s))

RelayDrainSpec == RelayInit /\ [][RelayDrainNext]_vars /\ RelayDrainFairness

\* ------------------------------------------------------- batch status update
\* hashes a caller passes in the hashes map, and the hash a row marked sent
\* before the call carries
GivenHash == 2
RecordedHash == 1

\* rows of transaction_queue as addToTransactionQueue and updateTransactionStatus
\* leave them: pending as inserted, sent with its hash, failed with none
TableRows(i) ==
    {[status |-> "pending", hash |-> NoHash, retries |-> 0, timestamp |-> 0, type |-> KindOf(i)],
     [status |-> "sent", hash |-> RecordedHash, retries |-> 1, timestamp |-> 0, type |-> KindOf(i)],
     [status |-> "failed", hash |-> NoHash, retries |-> 1, timestamp |-> 0, type |-> KindOf(i)]}

Tables ==
    {t \in [Ids -> UNION {TableRows(i) : i \in Ids} \cup {AbsentRow}] :
        /\ t[1] # AbsentRow
        /\ \A i \in Ids : t[i] # AbsentRow => t[i] \in TableRows(i)
        /\ \A i \in Ids : (i > 1 /\ t[i] # AbsentRow) => t[i - 1] # AbsentRow}

\* batchUpdateTransactionStatus(ids, status, hashes) up to its first await;
\* ids are ids of rows of the table
batchUpdateTransactionStatus(ids, status, hashes) ==
    /\ mode = "batch"
    /\ batch.pc \in {"idle", "done"}
    /\ batch.calls < MaxBatchCalls
    /\ ids # {}
    /\ \A i \in Ids : (i \in ids => store[i].status # "absent")
                       /\ (i \notin ids => hashes[i] = NoHash)
    /\ batch' = [IdleBatch EXCEPT !.pc = "read", !.ids = ids, !.status = status,
                                  !.hashes = hashes, !.calls = batch.calls + 1]
    /\ UNCHANGED <<mode, callbacks, scores, cron, storeVars, ledger, events, cycles, poolVars, relay>>

\* select id, retries where id in ids: retriesMap[tx.id] = (tx.retries || 0) + 1;
\* the error of the query is not looked at, data is then null and the map empty
batchRead ==
    /\ mode = "batch"
    /\ batch.pc = "read"
    /\ \E readOk \in BOOLEAN :
         batch' = [batch EXCEPT
            !.pc = "write",
            !.readOk = readOk,
            !.retriesMap = [i \in Ids |->
                IF readOk /\ i \in batch.ids /\ store[i].status # "absent"
                THEN store[i].retries + 1 ELSE 0]]
    /\ UNCHANGED <<mode, callbacks, scores, cron, storeVars, ledger, events, cycles, poolVars, relay>>

\* updates = ids.map(id => ({id, status, hash: hashes[id] || null,
\* retries: retriesMap[id] || 1})), upserted on the primary key: the listed
\* columns of each listed row are overwritten, hash with null when the map
\* has no entry for the id
upsert(st, ids, status, hashes, retriesMap) ==
    [i \in Ids |->
        IF i \in ids
        THEN [st[i] EXCEPT !.status = status,
                           !.hash = hashes[i],
                           !.retries = IF retriesMap[i] = 0 THEN 1 ELSE retriesMap[i]]
        ELSE st[i]]

\* the upsert answers: an error is caught and returned as {success: false}
batchWrite ==
    /\ mode = "batch"
    /\ batch.pc = "write"
    /\ \E storeOk \in BOOLEAN :
         /\ store' = IF storeOk
                     THEN upsert(store, batch.ids, batch.status, batch.hashes, batch.retriesMap)
                     ELSE store
         /\ batch' = [batch EXCEPT !.pc = "done", !.ok = storeOk]
    /\ UNCHANGED <<mode, callbacks, scores, cron, nextId, now, ledger, events, cycles, poolVars, relay>>

\* a table with rows in it and a caller of the batch update
BatchInit ==
    /\ mode = "batch"
    /\ callbacks = [onStatusUpdate |-> FALSE, onSuccess |-> FALSE, onError |-> FALSE]
    /\ cron = IdleCron
    /\ batch = IdleBatch
    /\ scores = IdleScores
    /\ store \in Tables
    /\ nextId = 1 + Cardinality({i \in Ids : store[i] # AbsentRow})
    /\ now = 0
    /\ ledger = <<>>
    /\ events = [success |-> 0, error |-> 0]
    /\ cycles = [s \in Slots |-> FreeCycle]
    /\ walletStatus = [w \in Wallets |->
          [isProcessing |-> FALSE, totalProcessed |-> 0, consecutiveErrors |-> 0]]
    /\ isPaused = FALSE
    /\ processingIntervals = [w \in Wallets |-> 0]
    /\ relay = [isProcessing |-> FALSE, isPaused |-> FALSE, processingInterval |-> 0]

BatchNext ==
    \/ \E ids \in SUBSET Ids, status \in {"sent", "failed"},
          hashes \in [Ids -> {NoHash, GivenHash}] :
             batchUpdateTransactionStatus(ids, status, hashes)
    \/ batchRead
    \/ batchWrite

BatchSpec == BatchInit /\ [][BatchNext]_vars

\* ------------------------------------------------ in-memory score queue
\* s.slice(k): s without its first k elements
slice(q, k) == IF k >= Len(q) THEN <<>> ELSE SubSeq(q, k + 1, Len(q))

\* addToQueue(score): push at the end of the queue
addToQueue ==
    /\ mode = "score"
    /\ scores.added < MaxScores
    /\ scores' = [scores EXCEPT !.queue = Append(@, scores.added + 1),
                                !.added = @ + 1]
    /\ UNCHANGED <<mode, callbacks, cron, batch, storeVars, ledger, events, cycles,
                   poolVars, relay>>

\* clearQueue()
clearQueue ==
    /\ mode = "score"
    /\ scores' = [scores EXCEPT !.queue = <<>>]
    /\ UNCHANGED <<mode, callbacks, cron, batch, storeVars, ledger, events, cycles,
                   poolVars, relay>>

\* the interval set by the constructor fires: processQueue up to its first
\* await; it returns at once while a batch is in flight or the queue is empty
processQueue ==
    /\ mode = "score"
    /\ IF scores.isProcessing \/ Len(scores.queue) = 0
       THEN UNCHANGED scores
       ELSE scores' = [scores EXCEPT !.isProcessing = TRUE, !.pc = "getNonce"]
    /\ UNCHANGED <<mode, callbacks, cron, batch, storeVars, ledger, events, cycles,
                   poolVars, relay>>

\* wallet.getNonce() answers: the nonce, or it raises (catch, finally)
getNonce ==
    /\ mode = "score"
    /\ scores.pc = "getNonce"
    /\ \/ scores' = [scores EXCEPT !.pc = "getFeeData", !.nonce = scores.mined]
       \/ scores' = [scores EXCEPT !.pc = "idle", !.isProcessing = FALSE]
    /\ UNCHANGED <<mode, callbacks, cron, batch, storeVars, ledger, events, cycles,
                   poolVars, relay>>

\* provider.getFeeData() answers, or raises.  On an answer the batch is the
\* first min(length, maxBatchSize) items of the queue and processTransaction
\* is started for each with nonce + index
getFeeData ==
    /\ mode = "score"
    /\ scores.pc = "getFeeData"
    /\ \/ LET batchSize == IF Len(scores.queue) < maxBatchSize
                            THEN Len(scores.queue) ELSE maxBatchSize
          IN scores' = [scores EXCEPT
                 !.pc = "allSettled",
                 !.txs = [k \in 1 .. batchSize |->
                            [item |-> scores.queue[k], nonce |-> scores.nonce + (k - 1),
                             attempts |-> 0, status |-> "pending"]]]
       \/ scores' = [scores EXCEPT !.pc = "idle", !.isProcessing = FALSE]
    /\ UNCHANGED <<mode, callbacks, cron, batch, storeVars, ledger, events, cycles,
                   poolVars, relay>>

\* one pass of the loop of processTransaction for the k-th item of the batch:
\* updateScore and tx.wait() answer and the receipt is returned, or one of
\* them raises: attempts++, the error is rethrown at maxRetries, otherwise
\* the loop goes round after retryDelay
processTransaction(k) ==
    /\ mode = "score"
    /\ scores.pc = "allSettled"
    /\ k \in 1 .. Len(scores.txs)
    /\ scores.txs[k].status = "pending"
    /\ scores.txs[k].attempts < maxRetries
    /\ \/ scores' = [scores EXCEPT !.txs[k].status = "fulfilled",
                                   !.txs[k].attempts = 0,
                                   !.mined = @ + 1]
       \/ scores' = [scores EXCEPT
                !.txs[k].attempts = @ + 1,
                !.txs[k].status = IF scores.txs[k].attempts + 1 >= maxRetries
                                  THEN "rejected" ELSE "pending"]
    /\ UNCHANGED <<mode, callbacks, cron, batch, storeVars, ledger, events, cycles,
                   poolVars, relay>>

\* number of fulfilled results
successCount(txs) == Cardinality({k \in 1 .. Len(txs) : txs[k].status = "fulfilled"})

\* variant: the batch settles and isProcessing is left set
allSettled_keepingBusy ==
    /\ mode = "score"
    /\ scores.pc = "allSettled"
    /\ \A k \in 1 .. Len(scores.txs) : scores.txs[k].status # "pending"
    /\ scores' = [scores EXCEPT
          !.queue = IF successCount(scores.txs) > 0
                    THEN slice(@, successCount(scores.txs)) ELSE @,
          !.pc = "idle", !.txs = <<>>]
    /\ UNCHANGED <<mode, callbacks, cron, batch, storeVars, ledger, events, cycles,
                   poolVars, relay>>

\* Promise.allSettled answers: the results are counted, the first
\* successCount items are removed from the queue, finally clears isProcessing
allSettled ==
    /\ mode = "score"
    /\ scores.pc = "allSettled"
    /\ \A k \in 1 .. Len(scores.txs) : scores.txs[k].status # "pending"
    /\ scores' = [scores EXCEPT
          !.queue = IF successCount(scores.txs) > 0
                    THEN slice(@, successCount(scores.txs)) ELSE @,
          !.pc = "idle", !.isProcessing = FALSE, !.txs = <<>>]
    /\ UNCHANGED <<mode, callbacks, cron, batch, storeVars, ledger, events, cycles,
                   poolVars, relay>>

\* the application built around the score queue
ScoreInit ==
    /\ mode = "score"
    /\ callbacks = [onStatusUpdate |-> FALSE, onSuccess |-> FALSE, onError |-> FALSE]
    /\ EmptySystem

ScoreNext ==
    \/ addToQueue
    \/ clearQueue
    \/ processQueue
    \/ getNonce
    \/ getFeeData
    \/ \E k \in 1 .. maxBatchSize : processTransaction(k)
    \/ allSettled

\* every awaited call of a batch returns
ScoreFairness ==
    /\ WF_vars(getNonce) /\ WF_vars(getFeeData) /\ WF_vars(allSettled)
    /\ \A k \in 1 .. maxBatchSize : WF_vars(processTransaction(k))

ScoreSpec == ScoreInit /\ [][ScoreNext]_vars /\ ScoreFairness

\* ---------------------------------------------------------------- claims
PoolSlots == {s \in Slots : s[1] \in Wallets}
InFlight == {s \in ActiveSlots : cycles[s].tx # NoTx}
BreakerOpen(w) == walletStatus[w].consecutiveErrors >= maxConsecutiveErrors

\* C1: in the pool no two wallets have an attempt in flight (row read, not
\* yet marked) for the same row id.
C1_OneAttemptPerItem ==
    \A s \in InFlight, t \in InFlight :
        (s \in PoolSlots /\ t \in PoolSlots /\ s[1] # t[1]) => cycles[s].tx # cycles[t].tx

\* C2: once a row's status is sent or failed no step of a relay changes it.
C2_TerminalStatus ==
    [][\A i \in Ids : store[i].status \in {"sent", "failed"}
                        => store'[i].status = store[i].status]_vars

\* C3: a row has a hash if and only if its status is sent.
C3_HashIffSent ==
    \A i \in Ids : store[i].status # "absent"
                     => ((store[i].hash # NoHash) <=> (store[i].status = "sent"))

\* C4: when the pool has drained N rows and nothing is in flight, the success
\* and error events emitted add up to N.
Settled ==
    /\ mode = "pool"
    /\ nextId > MaxItems
    /\ Pending(store) = {}
    /\ ActiveSlots = {}

C4_EventsEqualItems == Settled => events.success + events.error = nextId - 1

\* C5: the dequeue does not claim a row: while one wallet holds a row that is
\* still pending, the dequeue of another wallet can return that same row.
HandOut(t, i) == pwwFetch(t) /\ cycles'[t].tx = i

C5_DequeueDoesNotClaim ==
    \A s \in PoolSlots, t \in PoolSlots :
        ( /\ s[1] # t[1]
          /\ cycles[s].pc \in {"simulate", "submit"}
          /\ store[cycles[s].tx].status = "pending"
          /\ cycles[t].pc = "fetch"
          /\ EventsLeft )
        => ENABLED HandOut(t, cycles[s].tx)

\* two wallets have both submitted the same row and neither has marked it
C5_Witness ==
    \E s \in PoolSlots, t \in PoolSlots :
        /\ s[1] # t[1]
        /\ cycles[s].tx = cycles[t].tx
        /\ cycles[s].pc = "markRead" /\ cycles[s].mark = "sent"
        /\ cycles[t].pc = "markRead" /\ cycles[t].mark = "sent"
        /\ store[cycles[s].tx].status = "pending"
        /\ \E k \in DOMAIN ledger, l \in DOMAIN ledger :
              /\ k # l /\ ledger[k].tx = ledger[l].tx
              /\ ledger[k].w = s[1] /\ ledger[l].w = t[1]

\* C6: the submissions of one worker are in timestamp order, and each is the
\* row that worker dequeued last: no other dequeued row of that worker waits.
C6_FifoPerWorker ==
    /\ [](\A k \in DOMAIN ledger, l \in DOMAIN ledger :
            (k < l /\ ledger[k].w = ledger[l].w)
              => store[ledger[k].tx].timestamp <= store[ledger[l].tx].timestamp)
    /\ [][Len(ledger') > Len(ledger) =>
            LET e == ledger'[Len(ledger')] IN
            \E s \in CyclesOf(e.w) :
               /\ cycles[s].pc = "submit" /\ cycles[s].tx = e.tx
               /\ \A t \in CyclesOf(e.w) : cycles[t].tx # NoTx => t = s]_vars

\* the relay has submitted the two rows, enqueued one after the other, in
\* that order and nothing failed
C6_Witness ==
    /\ mode = "relay"
    /\ Len(ledger) = 2
    /\ ledger[1].tx = 1 /\ ledger[2].tx = 2
    /\ store[1].timestamp < store[2].timestamp
    /\ store[1].status = "sent" /\ store[2].status = "sent"
    /\ events.error = 0

\* C7: a worker never has two dequeue+submit cycles in flight.
C7_NoOverlap == \A w \in Workers : Cardinality(CyclesOf(w)) <= 1

\* a cycle is in flight while that wallet's timer is live and the pool is
\* not paused, and likewise for the relay
C7_Witness ==
    /\ mode = "pool" =>
          \E w \in Wallets : /\ CyclesOf(w) # {}
                             /\ processingIntervals[w] > 0
                             /\ ~isPaused
    /\ mode = "relay" =>
          /\ CyclesOf(Relay) # {}
          /\ relay.processingInterval > 0
          /\ ~relay.isPaused
    /\ \E s \in InFlight : cycles[s].pc = "submit"

C9_PausedTicksNoop ==
    [][/\ isPaused =>
            /\ \A s \in PoolSlots : cycles[s].pc = "free" => cycles'[s].pc = "free"
            /\ \A w \in Wallets : processWithWallet(w) => UNCHANGED vars
       /\ relay.isPaused =>
            /\ \A k \in {1, 2} : cycles[<<Relay, k>>].pc = "free"
                                    => cycles'[<<Relay, k>>].pc = "free"
            /\ processTxQueue => UNCHANGED vars]_vars

\* paused with a live timer, a pending row and nothing else stopping a tick
C9_Witness ==
    /\ Pending(store) # {}
    /\ \/ /\ mode = "pool" /\ isPaused
          /\ \E w \in Wallets : /\ processingIntervals[w] > 0
                                /\ ~walletStatus[w].isProcessing
                                /\ ~BreakerOpen(w)
       \/ /\ mode = "relay" /\ relay.isPaused
          /\ relay.processingInterval > 0
          /\ ~relay.isProcessing

\* C10: an attempt emits exactly one event: once its success event is out it
\* never goes on to mark the row failed and emit an error event.
C10_OneEventPerAttempt ==
    \A s \in ActiveSlots : ~(cycles[s].emitted = "success" /\ cycles[s].mark = "failed")

\* C11: the step that ends a successful attempt of wallet w adds 1 to
\* totalProcessed[w] and sets consecutiveErrors[w] to 0; the step that ends a
\* failed attempt adds exactly 1 to consecutiveErrors[w] and leaves
\* totalProcessed[w]; totalProcessed never decreases.
C11_PoolCounters ==
    [][/\ \A s \in PoolSlots :
             pwwMarkWrite(s) =>
                LET w == s[1] IN
                IF cycles[s].mark = "sent"
                THEN /\ walletStatus'[w].totalProcessed = walletStatus[w].totalProcessed + 1
                     /\ walletStatus'[w].consecutiveErrors = 0
                ELSE /\ walletStatus'[w].consecutiveErrors
                            = walletStatus[w].consecutiveErrors + 1
                     /\ walletStatus'[w].totalProcessed = walletStatus[w].totalProcessed
       /\ \A w \in Wallets :
             walletStatus'[w].totalProcessed >= walletStatus[w].totalProcessed]_vars

\* C12: a row marked failed is never pending again and no dequeue returns it
\* afterwards, so no tick that starts after the mark attempts it (a
\* submission is always of the row its own cycle dequeued); a cycle whose
\* simulate or submit failed goes on to the mark and never back to simulate
\* or submit.
C12_NoRetry ==
    [][/\ \A i \in Ids :
             store[i].status = "failed" =>
                /\ store'[i].status # "pending"
                /\ \A s \in Slots : cycles[s].tx # i => cycles'[s].tx # i
       /\ \A s \in Slots :
             cycles[s].mark = "failed" =>
                /\ cycles'[s].pc \in {"markRead", "markWrite", "free"}
                /\ ledger' = ledger \/ ledger'[Len(ledger')].w # s[1]
       /\ Len(ledger') > Len(ledger) =>
             \E s \in Slots : /\ cycles[s].pc = "submit" /\ cycles[s].mark = "none"
                              /\ ledger'[Len(ledger')] = LedgerCall(s[1], cycles[s].tx)]_vars

\* the relay marked row 1 failed after its simulate or submit raised, and a
\* later tick has its dequeue outstanding with no row pending
C12_Witness ==
    /\ mode = "relay"
    /\ store[1].status = "failed" /\ store[1].hash = NoHash
    /\ events.error = 1
    /\ Pending(store) = {}
    /\ cycles[<<Relay, 1>>].pc = "fetch"

RelayRunning == mode = "relay" /\ ~relay.isPaused /\ relay.processingInterval > 0
Attempted(b) == b \notin Pending(store) \/ \E s \in Slots : cycles[s].tx = b

C14_SimulationFailureIsFailure ==
    [][/\ \A s \in Slots :
            /\ (cycles[s].pc = "simulate" /\ cycles'[s].pc # "simulate")
                  => /\ cycles'[s].tx = cycles[s].tx
                     /\ ledger' = ledger
                     /\ \/ cycles'[s].pc = "submit" /\ cycles'[s].err = "none"
                        \/ /\ cycles'[s].pc = "markRead" /\ cycles'[s].mark = "failed"
                           /\ cycles'[s].err = "simulate"
            /\ cycles[s].err = "simulate"
                  => /\ cycles[s].mark = "failed"
                     /\ cycles'[s].pc \in {"markRead", "markWrite", "free"}
                     /\ (pwwMarkWrite(s) \/ ptqMarkWrite(s)) =>
                           \/ store' = store
                           \/ store'[cycles[s].tx].status = "failed"
                     /\ cycles'[s].pc = "free" => cycles[s].pc = "markWrite"
            /\ cycles'[s].pc = "submit" =>
                   /\ cycles[s].pc \in {"simulate", "submit"}
                   /\ cycles'[s].tx = cycles[s].tx
                   /\ cycles'[s].err = "none"
       /\ Len(ledger') > Len(ledger) =>
             \E t \in Slots :
                /\ cycles[t].pc = "submit" /\ cycles[t].err = "none"
                /\ ledger' = Append(ledger, LedgerCall(t[1], cycles[t].tx))]_vars

\* the simulations of row 1 raised for two pool wallets; one has marked the
\* row failed, the other is about to, and nothing was submitted
C14_Witness ==
    /\ mode = "pool"
    /\ store[1].status = "failed" /\ store[1].hash = NoHash
    /\ ledger = <<>>
    /\ \E s \in PoolSlots :
          /\ cycles[s].err = "simulate" /\ cycles[s].tx = 1
          /\ cycles[s].pc = "markRead"
    /\ events.error = 1

\* C15: no tick ends by an exception: a worker whose isProcessing flag is set
\* has an invocation in flight that will clear it, so a worker is eligible
\* again after each of its ticks, whatever failed in it.
C15_NoExceptionEscapes ==
    /\ \A w \in Wallets : walletStatus[w].isProcessing => CyclesOf(w) # {}
    /\ relay.isProcessing => CyclesOf(Relay) # {}

C17_FailingMarkEndsTick ==
    [][\A s \in Slots :
          ((pwwMarkWrite(s) \/ ptqMarkWrite(s)) /\ store' = store)
             => /\ events'.success + events'.error = events.success + events.error + 1
                /\ \/ /\ callbacks.onSuccess /\ cycles[s].mark = "sent"
                      /\ cycles'[s].pc = "markRead" /\ cycles'[s].mark = "failed"
                   \/ /\ cycles'[s] = FreeCycle
                      /\ s[1] \in Wallets =>
                            /\ ~walletStatus'[s[1]].isProcessing
                            /\ SkipTick(s[1])' => (isPaused' \/ BreakerOpen(s[1])')
                      /\ s[1] = Relay =>
                            /\ ~relay'.isProcessing
                            /\ SkipRelayTick' => relay'.isPaused]_vars

\* the relay submitted row 1, the store rejected the sent mark (the row is
\* still pending), the tick ended and the next tick's dequeue is outstanding
C17_Witness ==
    /\ mode = "relay"
    /\ Len(ledger) = 1 /\ ledger[1].tx = 1
    /\ events.success = 1 /\ events.error = 0
    /\ store[1].status = "pending"
    /\ cycles[<<Relay, 1>>].pc = "fetch"

\* a step of the invocation suspended in slot s
CycleStep(s) ==
    \/ pwwFetch(s) \/ pwwSimulate(s) \/ pwwSubmit(s) \/ pwwMarkRead(s) \/ pwwMarkWrite(s)
    \/ ptqFetch(s) \/ ptqSimulate(s) \/ ptqSubmit(s) \/ ptqMarkRead(s) \/ ptqMarkWrite(s)

\* C18: stop leaves no timer live and touches no invocation; a worker without
\* a live timer starts no cycle, and timers become live again only by start;
\* an invocation in flight can always take its next step, timer or not.
C18_StopCancelsTimers ==
    /\ [](\A s \in ActiveSlots : ENABLED CycleStep(s))
    /\ [][/\ stop => /\ \A w \in Wallets : processingIntervals'[w] = 0
                      /\ cycles' = cycles /\ store' = store
          /\ relayStop => /\ relay'.processingInterval = 0
                           /\ cycles' = cycles /\ store' = store
          /\ \A w \in Wallets :
                processingIntervals[w] = 0 =>
                   /\ \A k \in {1, 2} : cycles[<<w, k>>].pc = "free"
                                            => cycles'[<<w, k>>].pc = "free"
                   /\ processingIntervals'[w] > 0 => start
          /\ relay.processingInterval = 0 =>
                /\ \A k \in {1, 2} : cycles[<<Relay, k>>].pc = "free"
                                         => cycles'[<<Relay, k>>].pc = "free"
                /\ relay'.processingInterval > 0 => relayStart]_vars

\* the pool is stopped and not paused; one wallet is idle with a row pending
\* while another wallet's submission of that row is still in flight
C18_Witness ==
    /\ mode = "pool"
    /\ \A w \in Wallets : processingIntervals[w] = 0
    /\ ~isPaused
    /\ \E v \in Wallets, s \in PoolSlots :
          /\ s[1] # v
          /\ CyclesOf(v) = {} /\ ~walletStatus[v].isProcessing /\ ~BreakerOpen(v)
          /\ cycles[s].pc = "submit"
          /\ store[cycles[s].tx].status = "pending"

\* C19: publishing the status never blocks a tick: a tick that passes the
\* guard leaves the wallet with an invocation in flight (which will clear
\* isProcessing) or with isProcessing cleared, whatever the observer does.
C19_PublicationNeverBlocks ==
    [][\A w \in Wallets :
          (processWithWallet(w) /\ ~SkipTick(w))
             => \/ \E k \in {1, 2} : cycles'[<<w, k>>].pc = "fetch"
                \/ ~walletStatus'[w].isProcessing]_vars

Deletable(i) ==
    store[i].status \in {"sent", "failed"} /\ store[i].timestamp < now' - oneHour

\* C20: a sweep that the store carries out deletes exactly the rows that are
\* not pending and older than the window at the time of the sweep; no step
\* ever deletes a pending row; a row disappears only if it was not pending
\* and older than the window.
C20_RetentionSweep ==
    [][/\ \A e \in SweepDelays :
             cleanupOldTransactions(e, TRUE) =>
                \A i \in Ids :
                   /\ Deletable(i) => store'[i].status = "absent"
                   /\ ~Deletable(i) => store'[i] = store[i]
       /\ \A i \in Ids :
             /\ store[i].status = "pending" => store'[i].status # "absent"
             /\ (store[i].status # "absent" /\ store'[i].status = "absent")
                   => Deletable(i)]_vars

\* rows 1 and 2 were enqueued in the same millisecond; row 1 was sent and a
\* sweep more than one window later deleted it, while row 2, as old and
\* still pending, is kept
C20_Witness ==
    /\ nextId = 3
    /\ store[1].status = "absent"
    /\ store[2].status = "pending" /\ store[2].timestamp = 0
    /\ now > oneHour
    /\ Len(ledger) = 1 /\ ledger[1].tx = 1

\* C21: an invocation makes at most MAX_TRANSACTIONS attempts and counts no
\* more successes than attempts; when it has returned, the retention sweep
\* has run after the last attempt and the answer is the summary with the
\* processed count and a timestamp.
C21_ScheduledEntryPoint ==
    /\ cron.i <= MAX_TRANSACTIONS /\ cron.processedCount <= cron.i
    /\ cron.pc = "done" =>
          /\ cron.swept
          /\ cron.response.success
          /\ cron.response.processedTransactions = cron.processedCount
          /\ cron.response.timestamp # NoCount

\* C22 as stated: the dequeue's answer is determined by the table: one row,
\* the same on every call while no mark intervenes.
C22_DequeueSingleOldest == Cardinality(getNextPendingTransaction(store)) <= 1

\* C22, with ties: the dequeue answers with a pending row than which no
\* pending row has a smaller timestamp, with no row exactly when no row is
\* pending, and with one determined row when the smallest timestamp is held
\* by one pending row; the step in which it answers writes nothing to the
\* table, and the row a worker receives is such a row.
C22_DequeueOldestPending ==
    /\ [](LET R == getNextPendingTransaction(store) IN
            /\ \A i \in R : /\ store[i].status = "pending"
                             /\ \A j \in Ids : store[j].status = "pending"
                                                 => store[i].timestamp <= store[j].timestamp
            /\ (R = {}) <=> (\A j \in Ids : store[j].status # "pending")
            /\ \A i \in R :
                  (\A j \in Ids \ {i} : store[j].status = "pending"
                                            => store[i].timestamp < store[j].timestamp)
                     => R = {i})
    /\ [][\A s \in Slots :
             (pwwFetch(s) \/ ptqFetch(s))
                => /\ store' = store
                   /\ cycles'[s].tx # NoTx =>
                         /\ store[cycles'[s].tx].status = "pending"
                         /\ \A j \in Ids : store[j].status = "pending"
                               => store[cycles'[s].tx].timestamp <= store[j].timestamp]_vars

\* two rows enqueued at different milliseconds are pending; the relay's
\* dequeue has answered with the older one and both rows are as inserted
C22_Witness ==
    /\ mode = "relay"
    /\ store[1].status = "pending" /\ store[2].status = "pending"
    /\ store[1].timestamp < store[2].timestamp
    /\ store[1].retries = 0 /\ store[1].hash = NoHash
    /\ cycles[<<Relay, 1>>].tx = 1 /\ cycles[<<Relay, 1>>].pc = "simulate"

\* C23: every mark call that completes with a change to the table leaves the
\* row's retries one above what it was when the call completed, so that
\* retries counts the marks of the row.
C23_AttemptsCountMarks ==
    [][\A s \in Slots :
         (pwwMarkWrite(s) \/ ptqMarkWrite(s))
            => \/ store' = store
               \/ store'[cycles[s].tx].retries = store[cycles[s].tx].retries + 1]_vars

\* what calling updateTransactionStatus(id, status, hashes[id]) once for each
\* id of ids leaves in table st
MarkEach(st, ids, status, hashes) ==
    [i \in Ids |->
        IF i \in ids
        THEN updateTransactionStatus(st, i, status, hashes[i],
                                     currentRetries(st, i, TRUE))[i]
        ELSE st[i]]

\* C24: a batch update that read the retries and was accepted by the store
\* leaves the table as one mark per listed id would: the given status, the
\* hash given for the id, retries one higher, and every other row unchanged.
C24_BatchIsMarkEach ==
    [][(batchWrite /\ batch.readOk /\ batch'.ok)
          => store' = MarkEach(store, batch.ids, batch.status, batch.hashes)]_vars

\* C25: a step appends at most one call to the ledger, and only as the
\* submission of an attempt; the call appended for a row is recordExplosion
\* with the row's atom id when the row is an explosion and recordReaction
\* with the row's x, y, energy and atom id when it is a reaction, the empty
\* string standing for a missing atom id.
C25_KindDispatch ==
    [][ledger' # ledger =>
         /\ Len(ledger') = Len(ledger) + 1
         /\ SubSeq(ledger', 1, Len(ledger)) = ledger
         /\ \E s \in Slots :
               /\ cycles[s].pc = "submit" /\ cycles'[s].pc = "markRead"
               /\ LET i == cycles[s].tx
                      c == ledger'[Len(ledger')]
                      entityId == IF CellOf(i).atom_id = NoAtom THEN "" ELSE CellOf(i).atom_id
                  IN /\ c.tx = i
                     /\ store[i].type = TX_TYPE_EXPLOSION
                          => c.fn = "recordExplosion" /\ c.args = [atomId |-> entityId]
                     /\ store[i].type = TX_TYPE_REACTION
                          => /\ c.fn = "recordReaction"
                             /\ c.args = [x |-> CellOf(i).x, y |-> CellOf(i).y,
                                          energy |-> CellOf(i).energy,
                                          atomId |-> entityId]]_vars

\* the relay has submitted a reaction without atom id and an explosion with
\* one
C25_Witness ==
    \E k, l \in 1 .. Len(ledger) :
       /\ ledger[k].fn = "recordReaction" /\ ledger[k].args.atomId = ""
       /\ ledger[l].fn = "recordExplosion" /\ ledger[l].args.atomId = "atom"

\* C26: the status of wallet w changes only in a step of w's own
\* processWithWallet, which leaves the status of every other wallet as it
\* was, or in resetWallet(w), which changes nothing of it but
\* consecutiveErrors.
C26_WalletStateOwnership ==
    [][\A w \in Wallets :
         walletStatus'[w] # walletStatus[w] =>
            \/ /\ \/ processWithWallet(w)
                   \/ \E s \in CyclesOf(w) :
                         \/ pwwFetch(s) \/ pwwSimulate(s) \/ pwwSubmit(s)
                         \/ pwwMarkRead(s) \/ pwwMarkWrite(s)
                /\ \A j \in Wallets \ {w} : walletStatus'[j] = walletStatus[j]
            \/ /\ resetWallet(w)
                /\ walletStatus'[w].isProcessing = walletStatus[w].isProcessing
                /\ walletStatus'[w].totalProcessed = walletStatus[w].totalProcessed
                /\ \A j \in Wallets \ {w} : walletStatus'[j] = walletStatus[j]]_vars

\* wallet 0 has completed a submission while wallet 1, with an error on its
\* count, is in the middle of a cycle of its own
C26_Witness ==
    /\ walletStatus[0].totalProcessed = 1
    /\ walletStatus[1].consecutiveErrors >= 1
    /\ walletStatus[1].isProcessing
    /\ \E s \in CyclesOf(1) : cycles[s].pc = "markWrite"

\* the run has emitted all the events it may emit: no further row is handed out
EventBudgetSpent == events.success + events.error >= MaxEvents

\* C27: over a store whose calls succeed and with calls that return, while
\* the relay stays started and unpaused every pending row eventually is not
\* pending any more, and the count of pending rows eventually is 0 and stays
\* 0 (within the events of a run).
C27_DrainLiveness ==
    /\ \A i \in Ids :
          <>[]RelayRunning =>
             ((store[i].status = "pending")
                 ~> (store[i].status \in {"sent", "failed"} \/ EventBudgetSpent))
    /\ <>[]RelayRunning =>
          <>[](getPendingTransactionCount(store) = 0 \/ EventBudgetSpent)

\* the relay is running, both rows were enqueued and have left pending, one
\* of them sent, and nothing is in flight
C27_Witness ==
    /\ RelayRunning
    /\ store[1].status = "sent"
    /\ store[2].status \in {"sent", "failed"}
    /\ getPendingTransactionCount(store) = 0
    /\ ActiveSlots = {}
    /\ ~EventBudgetSpent

\* C28: over a run of the single-wallet relay no row is submitted to the
\* ledger twice.
C28_AtMostOnceSubmission ==
    mode = "relay" =>
       \A k, l \in 1 .. Len(ledger) : ledger[k].tx = ledger[l].tx => k = l

\* C29: a cycle that is issuing the failed mark for the row it holds has no
\* hash for it: its submission of the row did not succeed.
C29_SubmittedNeverMarkedFailed ==
    \A s \in ActiveSlots :
       (cycles[s].mark = "failed" /\ cycles[s].pc \in {"markRead", "markWrite"})
          => cycles[s].hash = NoHash

\* C30: a worker whose isProcessing is set eventually has it cleared.
C30_ProcessingEventuallyCleared ==
    /\ \A w \in Wallets :
          walletStatus[w].isProcessing ~> ~walletStatus[w].isProcessing
    /\ relay.isProcessing ~> ~relay.isProcessing

\* C31: a wallet of the pool, and the single-wallet relay, has at most one
\* live timer; start leaves exactly one per worker however many were live,
\* stop leaves none, and pause and resume leave the timers as they are.
C31_TimerUniqueness ==
    /\ [](/\ \A w \in Wallets : processingIntervals[w] \in {0, 1}
          /\ relay.processingInterval \in {0, 1})
    /\ [][/\ start => \A w \in Wallets : processingIntervals'[w] = 1
          /\ relayStart => relay'.processingInterval = 1
          /\ stop => \A w \in Wallets : processingIntervals'[w] = 0
          /\ relayStop => relay'.processingInterval = 0
          /\ (resume \/ pause) => processingIntervals' = processingIntervals
          /\ (relayResume \/ relayPause)
                => relay'.processingInterval = relay.processingInterval]_vars

\* the pool was started, a wallet completed a submission, and the pool is now
\* paused with its timers live, one per wallet
C31_Witness ==
    /\ mode = "pool"
    /\ isPaused
    /\ \A w \in Wallets : processingIntervals[w] = 1
    /\ \E w \in Wallets : walletStatus[w].totalProcessed >= 1

\* C32: the consecutiveErrors of every wallet of the pool is between 0 and
\* the ceiling.
C32_ErrorsWithinCeiling ==
    \A w \in Wallets :
       /\ walletStatus[w].consecutiveErrors >= 0
       /\ walletStatus[w].consecutiveErrors <= maxConsecutiveErrors

\* C33: in an invocation of the scheduled entry point no row is submitted to
\* the ledger twice, and when its loop has ended the processed count is the
\* number of rows it left with status sent.
C33_ScheduledAtMostOnce ==
    mode = "cron" =>
       /\ \A k, l \in 1 .. Len(ledger) : ledger[k].tx = ledger[l].tx => k = l
       /\ cron.pc = "sweep" =>
             cron.processedCount = Cardinality({i \in Ids : store[i].status = "sent"})

\* C34: the row of an attempt in flight (dequeued by a cycle that has not yet
\* had a mark of it answered) is in the table: no sweep has deleted it.
C34_SweepSparesInFlight ==
    \A s \in Holding :
       cycles[s].err # "onSuccess" => store[cycles[s].tx].status # "absent"

\* the scores a queue holds
ItemsOf(q) == {q[k] : k \in 1 .. Len(q)}

\* the batch in flight is still at the front of the queue: the queue was not
\* cleared since the batch was taken
BatchAtFront ==
    /\ Len(scores.txs) <= Len(scores.queue)
    /\ \A k \in 1 .. Len(scores.txs) : scores.txs[k].item = scores.queue[k]

\* C35: when a batch taken from the front of the queue settles, the items
\* that leave the queue are exactly those whose transaction was fulfilled,
\* and every item whose transaction was rejected is still in the queue.
C35_RemovedAreSucceeded ==
    [][(allSettled /\ BatchAtFront) =>
          LET succeeded == {scores.txs[k].item : k \in
                               {j \in 1 .. Len(scores.txs) : scores.txs[j].status = "fulfilled"}}
              failed == {scores.txs[k].item : k \in
                               {j \in 1 .. Len(scores.txs) : scores.txs[j].status = "rejected"}}
          IN /\ ItemsOf(scores.queue) \ ItemsOf(scores'.queue) = succeeded
             /\ failed \subseteq ItemsOf(scores'.queue)]_vars

====
